---- MODULE Spec2Model ----
(***************************************************************************)
(* Model of the timeline snapshot engine: save() of src/src/timeline-core.ts *)
(* with the deferred queue of timeline-queue.ts (src/unnamed/part_005).      *)
(* Every save invocation is an operating-system process; its steps are the   *)
(* awaits of the source.  The git backend, the index.lock marker held by     *)
(* other git processes and the clock are the environment.  DrainSpec starts   *)
(* from a queue log left by earlier saves and lets processes die; TravelSpec  *)
(* runs travel() next to a save.  CommandSpec runs list, search, delete and   *)
(* cleanup, EntriesSpec the sort of the tree entries, ProjectsSpec drains of  *)
(* requests of several projects and branches, TaskFairSpec the TimelineQueue  *)
(* of timeline-core-v2.ts.                                                    *)
(***************************************************************************)
EXTENDS Integers, Sequences, FiniteSets, TLC

----------------------------------------------------------------------------
(* Bounds of the model *)

\* file contents are 1..MaxContent, 0 stands for "file absent"
MaxContent == 1

\* the clock advances millisecond by millisecond up to MaxNow
MaxNow == 1

\* the number of tasks given to TimelineQueue
MaxTasks == 4

----------------------------------------------------------------------------
(* Program constants *)

maxRetries == 10
maxWaitTime == 5000
StaleLockMs == 30000
MaxQueueRetries == 5

----------------------------------------------------------------------------
(* Domains *)

\* the save processes running against the workspace
Procs == {1, 2}

\* a top-level file and a file in a sub-directory
Paths == {"a", "d/f"}

\* the path contains a slash
Nested(p) == p = "d/f"

\* git rev-parse HEAD
HeadCommit == "HEAD"

\* process.cwd() of the save processes
ProjectPath == "/repo"

\* the directory of another project: a git repository on branch main with
\* no uncommitted change, whose index.lock was left behind by a git process
\* that died
OtherPath == "/other"

\* holders of .git/index.lock: nobody, or a git process that is not a save
NoLock == 0
EnvHolder == -1

\* a file that does not exist, and a file holding the given records
NoFile == [exists |-> FALSE, lines |-> <<>>]
File(lines) == [exists |-> TRUE, lines |-> lines]

\* LOCK_FILE does not exist
NoLockFile == -1

\* a line of the queue log that is not JSON
BadLine == [text |-> "not json"]

\* JSON.parse(line) returns
JsonParses(line) == "timestamp" \in DOMAIN line

\* no queue entry is being captured
NoSnapshot == -100

\* exit status of a process ended by a signal
Killed == 137

\* arguments of the travel command: a timeline number, or a direct
\* reference given by the number in its name; and no travel at all
Ordinal(n) == [kind |-> "ordinal", n |-> n]
DirectRef(n) == [kind |-> "ref", n |-> n]
NoTarget == [kind |-> "none", n |-> 0]

\* timelineRef before travel assigns it
NoRef == <<>>

\* process.exit(1) of travel for an invalid timeline number
TravelExit == "exit498"

\* the calls of process.exit in save(), by line
ExitSites == {"exit80", "exit98", "exit115", "exit132", "exit274", "exit279"}

Trees == [Paths -> 0..MaxContent]

\* committed trees of the line of work: the top-level file is present
HeadTrees == {t \in [Paths -> 0..1] : t["a"] = 1}

EmptyTree == [p \in Paths |-> 0]

Min(x, y) == IF x < y THEN x ELSE y

RECURSIVE Pow2(_)
Pow2(n) == IF n = 0 THEN 1 ELSE 2 * Pow2(n - 1)

----------------------------------------------------------------------------
VARIABLES
  now,            \* Date.now()
  isRepo,         \* the working directory is inside a git repository
  curBranch,      \* git rev-parse --abbrev-ref HEAD
  head,           \* tree of the line-of-work head
  wt,             \* working-tree contents
  indexLock,      \* holder of .git/index.lock
  refs,           \* refs/heads/timelines/*
  notes,          \* commits carrying a timeline-metadata note
  QUEUE_FILE,     \* pending.jsonl: NoFile or File(its records)
  LOCK_FILE,      \* processor.lock: NoLockFile or the timestamp it holds
  warned,         \* snapshots reported by console.warn after max retries
  pc,             \* position of each save process
  exitCode,       \* -1 while running, else the code given to process.exit
  mem,            \* local variables of each save process
  made,           \* history: reference names written by each process
  priorSuccess,   \* history: a save had succeeded when the process started
  acquired,       \* history: the process wrote LOCK_FILE and has not run
                  \* the finally block since
  captured,       \* history: queue entries each process captured in a drain
  failedIds,      \* history: entries a rewrite left out after max retries
  dead,           \* history: entries counted by a console.warn
  readIds,        \* history: entries each process read from the log
  target,         \* argument of the travel command, NoTarget for a save
  timelineRef,    \* the reference travel resolved its target to
  branches,       \* the branches that exist under refs/heads
  shell,          \* the interactive command: position, locals, output
  collected,      \* the entries save collected for the tree
  fed,            \* what save wrote to the standard input of git mktree
  cwd,            \* process.cwd() of each save process
  TimelineQueue,  \* the static fields of TimelineQueue and the position
                  \* of its process()
  taskLog         \* history: the tasks added, started and settled

envVars == <<now, isRepo, curBranch, head, wt>>
gitVars == <<indexLock, refs, notes>>
queueVars == <<QUEUE_FILE, LOCK_FILE, warned>>
saveHist == <<made, priorSuccess>>
drainHist == <<acquired, captured, failedIds, dead, readIds>>
travelVars == <<target, timelineRef>>
cmdVars == <<branches, shell, collected, fed>>
projVars == <<cwd>>
taskVars == <<TimelineQueue, taskLog>>
histVars == <<saveHist, drainHist, travelVars, cmdVars, projVars, taskVars>>

vars == <<now, isRepo, curBranch, head, wt, indexLock, refs, notes,
          QUEUE_FILE, LOCK_FILE, warned, pc, exitCode, mem, made,
          priorSuccess, acquired, captured, failedIds, dead, readIds,
          target, timelineRef, branches, shell, collected, fed, cwd,
          TimelineQueue, taskLog>>

\* the locals of save(), enqueueSnapshot() and processQueue() before they
\* are assigned; a process that has exited has no memory
InitMem ==
  [attempt |-> 0, totalWaitTime |-> 0, nested |-> FALSE, branch |-> "main",
   timestamp |-> 0, tree |-> EmptyTree, commitHash |-> <<>>,
   content |-> <<>>, lineIdx |-> 0, pending |-> <<>>, failed |-> <<>>,
   snapshot |-> NoSnapshot]

----------------------------------------------------------------------------
(* Helpers *)

\* a status check that always reports changes
StatusNonEmpty_Always == TRUE

\* git status --porcelain prints something
StatusNonEmpty == wt # head

\* git mktree rejects an entry whose path contains a slash
MktreeFails(entries) == \E p \in entries : Nested(p)

\* a catch-all that reports the failure to the caller
Exit_ErrorCode(i, site) ==
  /\ pc' = [pc EXCEPT ![i] = site]
  /\ exitCode' = [exitCode EXCEPT ![i] = IF site = "exit279" THEN 1 ELSE 0]
  /\ mem' = [mem EXCEPT ![i] = InitMem]

\* process.exit(0) at the given site
Exit(i, site) ==
  /\ pc' = [pc EXCEPT ![i] = site]
  /\ exitCode' = [exitCode EXCEPT ![i] = 0]
  /\ mem' = [mem EXCEPT ![i] = InitMem]

\* continue at the given label with the given locals
Goto(i, label, m) ==
  /\ pc' = [pc EXCEPT ![i] = label]
  /\ mem' = [mem EXCEPT ![i] = m]
  /\ UNCHANGED exitCode

----------------------------------------------------------------------------
\* a search pattern: the text it looks for, and whether it is written with
\* a leading dash
Plain(c) == [text |-> c, dash |-> FALSE]
Dashed(c) == [text |-> c, dash |-> TRUE]
NoPattern == [text |-> 0, dash |-> FALSE]

\* no interactive command has run
IdleShell ==
  [pc |-> "idle", victims |-> {}, out |-> <<>>, ran |-> "none",
   input |-> "", pattern |-> NoPattern]

\* no interactive command runs, and no entries are being collected
InitCmd ==
  /\ branches = {"main"}
  /\ shell = IdleShell
  /\ collected = <<>>
  /\ fed = <<>>

\* the entries of a sequence of log lines, by timestamp
Ids(lines) ==
  {lines[k].timestamp : k \in {n \in 1..Len(lines) : JsonParses(lines[n])}}

\* process() is not awaiting a task
NoTask == [id |-> 0, throws |-> FALSE]

\* TimelineQueue before any add: queue = [], processing = false
IdleQueue ==
  [queue |-> <<>>, processing |-> FALSE, pc |-> "idle", task |-> NoTask]

\* no task was added
NoTasks == [added |-> <<>>, started |-> <<>>, settled |-> {}, thrown |-> {}]

\* nothing has run yet
InitProcs ==
  /\ cwd = [i \in Procs |-> ProjectPath]
  /\ TimelineQueue = IdleQueue
  /\ taskLog = NoTasks
  /\ indexLock = NoLock
  /\ notes = {}
  /\ LOCK_FILE = NoLockFile
  /\ warned = 0
  /\ pc = [i \in Procs |-> "start"]
  /\ exitCode = [i \in Procs |-> -1]
  /\ mem = [i \in Procs |-> InitMem]
  /\ made = [i \in Procs |-> {}]
  /\ priorSuccess = [i \in Procs |-> FALSE]
  /\ acquired = [i \in Procs |-> FALSE]
  /\ captured = [i \in Procs |-> {}]
  /\ failedIds = {}
  /\ dead = {}
  /\ readIds = [i \in Procs |-> {}]
  /\ timelineRef = [i \in Procs |-> NoRef]

Init ==
  /\ now = 0
  /\ isRepo \in BOOLEAN
  /\ curBranch = "main"
  /\ head \in HeadTrees
  /\ wt \in Trees
  /\ refs = {}
  /\ QUEUE_FILE = NoFile
  /\ target = [i \in Procs |-> NoTarget]
  /\ InitProcs
  /\ InitCmd

----------------------------------------------------------------------------
(* Environment *)

\* a millisecond passes
Tick ==
  /\ now < MaxNow
  /\ now' = now + 1
  /\ UNCHANGED <<isRepo, curBranch, head, wt>>
  /\ UNCHANGED <<gitVars, queueVars, histVars, pc, exitCode, mem>>

\* more than the staleness threshold passes
TickStale ==
  /\ now <= MaxNow
  /\ now' = now + StaleLockMs + 1
  /\ UNCHANGED <<isRepo, curBranch, head, wt>>
  /\ UNCHANGED <<gitVars, queueVars, histVars, pc, exitCode, mem>>

\* another git process (editor, user command) takes index.lock
EnvLock ==
  /\ indexLock = NoLock
  /\ indexLock' = EnvHolder
  /\ UNCHANGED <<envVars, refs, notes>>
  /\ UNCHANGED <<queueVars, histVars, pc, exitCode, mem>>

\* the other git process finishes and removes index.lock
EnvUnlock ==
  /\ indexLock = EnvHolder
  /\ indexLock' = NoLock
  /\ UNCHANGED <<envVars, refs, notes>>
  /\ UNCHANGED <<queueVars, histVars, pc, exitCode, mem>>

----------------------------------------------------------------------------
(* save(): entry, repository check and lock guard *)

\* the command dispatcher calls save()
Invoke(i) ==
  /\ pc[i] = "start"
  /\ target[i] = NoTarget
  /\ Goto(i, "gitdir", mem[i])
  /\ priorSuccess' = [priorSuccess EXCEPT
                        ![i] = \E j \in Procs : pc[j] = "exit274"]
  /\ UNCHANGED <<envVars, gitVars, queueVars, made, drainHist, travelVars, cmdVars, projVars, taskVars>>

\* git rev-parse --git-dir, and the locals of the lock guard
save_gitdir(i) ==
  /\ pc[i] = "gitdir"
  /\ IF isRepo
       THEN Goto(i, "poll", [mem[i] EXCEPT !.attempt = 0,
                                           !.totalWaitTime = 0])
       ELSE Exit(i, "exit80")
  /\ UNCHANGED <<envVars, gitVars, queueVars, histVars>>

\* a backoff without the cap of one second
waitTime_Uncapped(k) == 50 * Pow2(k)

\* wait of the lock guard at the given attempt
waitTime(k) == Min(50 * Pow2(k), 1000)

\* one iteration of the lock-guard loop; the loop variables are not read
\* after the loop
save_poll(i) ==
  /\ pc[i] = "poll"
  /\ IF mem[i].attempt >= maxRetries \/ indexLock = NoLock
       THEN Goto(i, "final", [mem[i] EXCEPT !.attempt = 0,
                                            !.totalWaitTime = 0])
       ELSE IF mem[i].totalWaitTime >= maxWaitTime
         THEN Exit(i, "exit98")
         ELSE Goto(i, "poll",
                   [mem[i] EXCEPT
                      !.totalWaitTime = @ + waitTime(mem[i].attempt),
                      !.attempt = @ + 1])
  /\ UNCHANGED <<envVars, gitVars, queueVars, histVars>>

\* final check of index.lock; the arguments of enqueueSnapshot
save_final(i) ==
  /\ pc[i] = "final"
  /\ IF indexLock # NoLock
       THEN Goto(i, "enq_exists", [mem[i] EXCEPT !.timestamp = now,
                                                 !.branch = curBranch])
       ELSE Goto(i, "pq_start", mem[i])
  /\ UNCHANGED <<envVars, gitVars, queueVars, histVars>>

----------------------------------------------------------------------------
(* enqueueSnapshot() *)

\* a record that starts at the retry ceiling
NewEntry_AtCeiling(m) ==
  [timestamp |-> m.timestamp, projectPath |-> ProjectPath,
   branch |-> m.branch, retries |-> MaxQueueRetries]

\* the record enqueueSnapshot builds from the request
NewEntry(m) ==
  [timestamp |-> m.timestamp, projectPath |-> ProjectPath,
   branch |-> m.branch, retries |-> 0]

\* existsSync(QUEUE_FILE)
enq_exists(i) ==
  /\ pc[i] = "enq_exists"
  /\ IF QUEUE_FILE.exists
       THEN Goto(i, "enq_read", mem[i])
       ELSE Goto(i, "enq_create", mem[i])
  /\ UNCHANGED <<envVars, gitVars, queueVars, histVars>>

\* readFile(QUEUE_FILE); it throws when the file is gone, and the catch-all
\* of save exits
enq_read(i) ==
  /\ pc[i] = "enq_read"
  /\ IF QUEUE_FILE.exists
       THEN Goto(i, "enq_append", [mem[i] EXCEPT !.content = QUEUE_FILE.lines])
       ELSE Exit(i, "exit279")
  /\ UNCHANGED <<envVars, gitVars, queueVars, histVars>>

\* writeFile(QUEUE_FILE, content + line), then process.exit(0)
enq_append(i) ==
  /\ pc[i] = "enq_append"
  /\ QUEUE_FILE' = File(Append(mem[i].content, NewEntry(mem[i])))
  /\ Exit(i, "exit115")
  /\ UNCHANGED <<envVars, gitVars, LOCK_FILE, warned, histVars>>

\* writeFile(QUEUE_FILE, line), then process.exit(0)
enq_create(i) ==
  /\ pc[i] = "enq_create"
  /\ QUEUE_FILE' = File(<<NewEntry(mem[i])>>)
  /\ Exit(i, "exit115")
  /\ UNCHANGED <<envVars, gitVars, LOCK_FILE, warned, histVars>>

----------------------------------------------------------------------------
(* processQueue(), called by save() before it captures *)

\* git rev-parse --git-dir succeeds in the directory
IsRepo(dir) == IF dir = ProjectPath THEN isRepo ELSE TRUE

\* existsSync of index.lock in the git directory of the directory
IndexLocked(dir) == IF dir = ProjectPath THEN indexLock # NoLock ELSE TRUE

\* git rev-parse --abbrev-ref HEAD in the directory
BranchIn(dir) == IF dir = ProjectPath THEN curBranch ELSE "main"

\* git status --porcelain in the directory prints something
StatusIn(dir) == IF dir = ProjectPath THEN StatusNonEmpty ELSE FALSE

\* an entry after a failed attempt
Retried(e) == [e EXCEPT !.retries = @ + 1]

\* a drain that goes on without a log file
pq_start_Always(i) ==
  /\ pc[i] = "pq_start"
  /\ Goto(i, "pq_lockcheck", mem[i])
  /\ UNCHANGED <<envVars, gitVars, queueVars, histVars>>

\* existsSync(QUEUE_FILE)
pq_start(i) ==
  /\ pc[i] = "pq_start"
  /\ IF QUEUE_FILE.exists
       THEN Goto(i, "pq_lockcheck", mem[i])
       ELSE Goto(i, "branch", mem[i])
  /\ UNCHANGED <<envVars, gitVars, queueVars, histVars>>

\* existsSync(LOCK_FILE)
pq_lockcheck(i) ==
  /\ pc[i] = "pq_lockcheck"
  /\ IF LOCK_FILE # NoLockFile
       THEN Goto(i, "pq_lockread", mem[i])
       ELSE Goto(i, "pq_lockwrite", mem[i])
  /\ UNCHANGED <<envVars, gitVars, queueVars, histVars>>

\* a lock check that never takes an old lock for stale
pq_lockread_NeverStale(i) ==
  /\ pc[i] = "pq_lockread"
  /\ Goto(i, "branch", mem[i])
  /\ UNCHANGED <<envVars, gitVars, queueVars, histVars>>

\* readFile(LOCK_FILE) and the staleness test; a missing file throws out of
\* processQueue and save ignores the error
pq_lockread(i) ==
  /\ pc[i] = "pq_lockread"
  /\ IF LOCK_FILE # NoLockFile /\ now - LOCK_FILE > StaleLockMs
       THEN Goto(i, "pq_lockwrite", mem[i])
       ELSE Goto(i, "branch", mem[i])
  /\ UNCHANGED <<envVars, gitVars, queueVars, histVars>>

\* writeFile(LOCK_FILE, Date.now().toString())
pq_lockwrite(i) ==
  /\ pc[i] = "pq_lockwrite"
  /\ LOCK_FILE' = now
  /\ acquired' = [acquired EXCEPT ![i] = TRUE]
  /\ Goto(i, "pq_read", mem[i])
  /\ UNCHANGED <<envVars, gitVars, QUEUE_FILE, warned, saveHist, travelVars, cmdVars, projVars, taskVars>>
  /\ UNCHANGED <<captured, failedIds, dead, readIds>>

\* readFile(QUEUE_FILE) inside the try block; a file without records is
\* removed with rm -f
pq_read(i) ==
  /\ pc[i] = "pq_read"
  /\ IF ~QUEUE_FILE.exists
       THEN /\ Goto(i, "pq_finally", mem[i])
            /\ UNCHANGED QUEUE_FILE
       ELSE IF Len(QUEUE_FILE.lines) = 0
         THEN /\ Goto(i, "pq_finally", mem[i])
              /\ QUEUE_FILE' = NoFile
         ELSE /\ Goto(i, "pq_line",
                      [mem[i] EXCEPT !.content = QUEUE_FILE.lines,
                                     !.lineIdx = 1,
                                     !.pending = <<>>,
                                     !.failed = <<>>])
              /\ UNCHANGED QUEUE_FILE
  /\ readIds' = [readIds EXCEPT ![i] = @ \cup Ids(QUEUE_FILE.lines)]
  /\ UNCHANGED <<envVars, gitVars, LOCK_FILE, warned, saveHist, travelVars, cmdVars, projVars, taskVars>>
  /\ UNCHANGED <<acquired, captured, failedIds, dead>>

\* one iteration of the for loop: JSON.parse, chdir, rev-parse, index.lock
\* check, and the call of save() for an entry that can proceed.  For a line
\* that is not JSON the JSON.parse of the catch block throws again: the
\* error leaves the loop and the try block without rewrite and without warn.
\* process.chdir is not undone on any path
pq_line(i) ==
  /\ pc[i] = "pq_line"
  /\ IF mem[i].lineIdx > Len(mem[i].content)
       THEN /\ Goto(i, "pq_rewrite", mem[i])
            /\ UNCHANGED cwd
       ELSE IF ~JsonParses(mem[i].content[mem[i].lineIdx])
         THEN /\ Goto(i, "pq_finally", [mem[i] EXCEPT !.pending = <<>>,
                                                      !.failed = <<>>])
              /\ UNCHANGED cwd
         ELSE LET snapshot == Retried(mem[i].content[mem[i].lineIdx]) IN
           /\ cwd' = [cwd EXCEPT ![i] = snapshot.projectPath]
           /\ IF ~IsRepo(snapshot.projectPath)
                   \/ IndexLocked(snapshot.projectPath)
                THEN IF snapshot.retries < MaxQueueRetries
                       THEN Goto(i, "pq_line",
                                 [mem[i] EXCEPT
                                    !.lineIdx = @ + 1,
                                    !.pending = Append(@, snapshot)])
                       ELSE Goto(i, "pq_line",
                                 [mem[i] EXCEPT
                                    !.lineIdx = @ + 1,
                                    !.failed = Append(@, snapshot)])
                ELSE Goto(i, "gitdir",
                          [mem[i] EXCEPT !.nested = TRUE,
                                         !.snapshot = snapshot.timestamp])
  /\ UNCHANGED <<envVars, gitVars, queueVars, saveHist, drainHist,
                 travelVars, cmdVars, taskVars>>

\* a rewrite that removes the queue whatever is pending
pq_rewrite_Remove(i) ==
  /\ pc[i] = "pq_rewrite"
  /\ QUEUE_FILE' = NoFile
  /\ failedIds' = failedIds \cup Ids(mem[i].failed)
  /\ Goto(i, "pq_finally", mem[i])
  /\ UNCHANGED <<envVars, gitVars, LOCK_FILE, warned, saveHist, travelVars, cmdVars, projVars, taskVars>>
  /\ UNCHANGED <<acquired, captured, dead, readIds>>

\* rewrite the queue with the pending items, or remove it
pq_rewrite(i) ==
  /\ pc[i] = "pq_rewrite"
  /\ QUEUE_FILE' = IF Len(mem[i].pending) > 0
                     THEN File(mem[i].pending)
                     ELSE NoFile
  /\ failedIds' = failedIds \cup Ids(mem[i].failed)
  /\ Goto(i, "pq_finally", mem[i])
  /\ UNCHANGED <<envVars, gitVars, LOCK_FILE, warned, saveHist, travelVars, cmdVars, projVars, taskVars>>
  /\ UNCHANGED <<acquired, captured, dead, readIds>>

\* console.warn of the failed items, then the finally block: rm -f LOCK_FILE;
\* the locals of processQueue end with it
pq_finally(i) ==
  /\ pc[i] = "pq_finally"
  /\ warned' = warned + Len(mem[i].failed)
  /\ dead' = dead \cup Ids(mem[i].failed)
  /\ LOCK_FILE' = NoLockFile
  /\ acquired' = [acquired EXCEPT ![i] = FALSE]
  /\ Goto(i, "branch", [mem[i] EXCEPT !.content = <<>>, !.lineIdx = 0,
                                      !.pending = <<>>, !.failed = <<>>])
  /\ UNCHANGED <<envVars, gitVars, QUEUE_FILE, saveHist, travelVars, cmdVars, projVars, taskVars>>
  /\ UNCHANGED <<captured, failedIds, readIds>>

----------------------------------------------------------------------------
(* save(): the capture *)

\* the tree save() ends up with for the given working tree: HEAD's tree when
\* no file exists, and also when object creation fails (the fallback of the
\* catch block); otherwise the tree built from the existing files
BuiltTree(w, h, backendOk) ==
  LET entries == {p \in Paths : w[p] # 0} IN
    IF entries = {} THEN h
    ELSE IF ~backendOk \/ MktreeFails(entries) THEN h
    ELSE w

\* commit-tree <tree> -p <currentCommit> -m <message>
CommitTree(t, parent, ts) == [tree |-> t, parent |-> parent, message |-> ts]

\* timelines/<branch>/+<timelineNumber>_snapshot
timelineName(b, timelineNumber) == <<b, timelineNumber>>

\* git update-ref refs/heads/<name> <commit>
UpdateRef(rs, name, c) ==
  {r \in rs : r.name # name} \cup {[name |-> name, commit |-> c]}

\* getCurrentBranch() and git rev-parse HEAD
save_branch(i) ==
  /\ pc[i] = "branch"
  /\ Goto(i, "status", [mem[i] EXCEPT !.branch = BranchIn(cwd[i])])
  /\ UNCHANGED <<envVars, gitVars, queueVars, histVars>>

\* git status --porcelain starts in the current directory: it refreshes the
\* index under index.lock when the lock is free and the cached stat data is
\* out of date
save_status(i) ==
  /\ pc[i] = "status"
  /\ \E refresh \in BOOLEAN :
       IF refresh /\ cwd[i] = ProjectPath /\ indexLock = NoLock
         THEN indexLock' = i
         ELSE UNCHANGED indexLock
  /\ Goto(i, "status_end", mem[i])
  /\ UNCHANGED <<envVars, refs, notes, queueVars, histVars>>

\* git status --porcelain returns; exit when it printed nothing
save_status_end(i) ==
  /\ pc[i] = "status_end"
  /\ indexLock' = IF indexLock = i THEN NoLock ELSE indexLock
  /\ IF StatusIn(cwd[i])
       THEN Goto(i, "tree", mem[i])
       ELSE Exit(i, "exit132")
  /\ UNCHANGED <<envVars, refs, notes, queueVars, histVars>>

\* hook data, timestamp, and the tree from ls-files, hash-object and mktree
save_tree(i) ==
  /\ pc[i] = "tree"
  /\ \E backendOk \in BOOLEAN :
       Goto(i, "commit", [mem[i] EXCEPT
                            !.timestamp = now,
                            !.tree = BuiltTree(wt, head, backendOk)])
  /\ UNCHANGED <<envVars, gitVars, queueVars, histVars>>

\* git commit-tree
save_commit(i) ==
  /\ pc[i] = "commit"
  /\ \E ok \in BOOLEAN :
       IF ok
         THEN Goto(i, "updateref",
                   [mem[i] EXCEPT !.commitHash =
                      CommitTree(mem[i].tree, HeadCommit, mem[i].timestamp)])
         ELSE Exit(i, "exit279")
  /\ UNCHANGED <<envVars, gitVars, queueVars, histVars>>

\* Date.now() and git update-ref
save_updateref(i) ==
  /\ pc[i] = "updateref"
  /\ \E ok \in BOOLEAN :
       IF ok
         THEN /\ refs' = UpdateRef(refs, timelineName(mem[i].branch, now),
                                   mem[i].commitHash)
              /\ made' = [made EXCEPT
                            ![i] = @ \cup {timelineName(mem[i].branch, now)}]
              /\ captured' = [captured EXCEPT
                                ![i] = @ \cup ({mem[i].snapshot}
                                                 \ {NoSnapshot})]
              /\ Goto(i, "notes", mem[i])
         ELSE /\ Exit(i, "exit279")
              /\ UNCHANGED <<refs, made, captured>>
  /\ UNCHANGED <<envVars, indexLock, notes, queueVars, priorSuccess>>
  /\ UNCHANGED <<acquired, failedIds, dead, readIds, travelVars, cmdVars, projVars, taskVars>>

\* git notes --ref=timeline-metadata add -f, then process.exit(0)
save_notes(i) ==
  /\ pc[i] = "notes"
  /\ \E ok \in BOOLEAN :
       IF ok
         THEN /\ notes' = notes \cup {mem[i].commitHash}
              /\ Exit(i, "exit274")
         ELSE /\ Exit(i, "exit279")
              /\ UNCHANGED notes
  /\ UNCHANGED <<envVars, indexLock, refs, queueVars, histVars>>

----------------------------------------------------------------------------
(* The system *)

\* one step of a save process
SaveStep(i) ==
  \/ Invoke(i)
  \/ save_gitdir(i)
  \/ save_poll(i)
  \/ save_final(i)
  \/ enq_exists(i)
  \/ enq_read(i)
  \/ enq_append(i)
  \/ enq_create(i)
  \/ pq_start(i)
  \/ pq_lockcheck(i)
  \/ pq_lockread(i)
  \/ pq_lockwrite(i)
  \/ pq_read(i)
  \/ pq_line(i)
  \/ pq_rewrite(i)
  \/ pq_finally(i)
  \/ save_branch(i)
  \/ save_status(i)
  \/ save_status_end(i)
  \/ save_tree(i)
  \/ save_commit(i)
  \/ save_updateref(i)
  \/ save_notes(i)

Next ==
  \/ Tick
  \/ TickStale
  \/ EnvLock
  \/ EnvUnlock
  \/ \E i \in Procs : SaveStep(i)

Spec == Init /\ [][Next]_vars

TypeOK ==
  /\ pc \in [Procs -> {"start", "gitdir", "poll", "final", "enq_exists",
                      "enq_read", "enq_append", "enq_create", "pq_start",
                      "pq_lockcheck", "pq_lockread", "pq_lockwrite",
                      "pq_read", "pq_line", "pq_rewrite",
                      "pq_finally", "branch", "status", "status_end", "tree",
                      "commit", "updateref", "notes", "crashed",
                      TravelExit}
                       \cup ExitSites]
  /\ exitCode \in [Procs -> {-1, 0, 1, Killed}]
  /\ indexLock \in {NoLock, EnvHolder} \cup Procs

----------------------------------------------------------------------------
(* Drains of a log left by earlier saves, with processes that can die *)

\* a deferred request written by an earlier save
OldEntry(ts, r) ==
  [timestamp |-> ts, projectPath |-> ProjectPath, branch |-> "main",
   retries |-> r]

\* logs found at the start: one fresh entry, one entry a failure away from
\* the retry ceiling, a line that is not JSON before an entry
OldLogs ==
  {File(<<OldEntry(-1, 0)>>),
   File(<<OldEntry(-1, MaxQueueRetries - 1)>>),
   File(<<BadLine, OldEntry(-1, 0)>>)}

\* a repository whose committed file was deleted in the workspace, and a
\* queue log
DrainInit ==
  /\ now = 0
  /\ isRepo = TRUE
  /\ curBranch = "main"
  /\ head = [p \in Paths |-> IF p = "a" THEN 1 ELSE 0]
  /\ wt = EmptyTree
  /\ refs = {}
  /\ QUEUE_FILE \in OldLogs
  /\ target = [i \in Procs |-> NoTarget]
  /\ InitProcs
  /\ InitCmd

\* the process is killed (signal, power loss) between two steps; a git
\* child that holds index.lock runs to its end and removes it
Crash(i) ==
  /\ pc[i] \notin {"start", "crashed", TravelExit} \cup ExitSites
  /\ pc' = [pc EXCEPT ![i] = "crashed"]
  /\ exitCode' = [exitCode EXCEPT ![i] = Killed]
  /\ mem' = [mem EXCEPT ![i] = InitMem]
  /\ indexLock' = IF indexLock = i THEN NoLock ELSE indexLock
  /\ UNCHANGED <<envVars, refs, notes, queueVars, histVars>>

DrainNext ==
  \/ Next
  \/ \E i \in Procs : Crash(i)

DrainSpec == DrainInit /\ [][DrainNext]_vars

----------------------------------------------------------------------------
(* travel() *)

\* the smallest timeline number among the given reference names
RECURSIVE MinNumber(_)
MinNumber(names) ==
  LET n == CHOOSE x \in names : TRUE
      rest == names \ {n}
  IN IF rest = {} THEN n[2] ELSE Min(n[2], MinNumber(rest))

\* git for-each-ref refs/heads/timelines/<branch>/+*: the names in the
\* order of the reference names, which is the order of the numbers as long
\* as they have the same count of digits
RECURSIVE ForEachRef(_)
ForEachRef(names) ==
  IF names = {} THEN <<>>
  ELSE LET first == CHOOSE x \in names : x[2] = MinNumber(names)
       IN <<first>> \o ForEachRef(names \ {first})

\* a sequence back to front
RECURSIVE Reverse(_)
Reverse(q) == IF q = <<>> THEN <<>> ELSE Append(Reverse(Tail(q)), Head(q))

\* a listing that starts with the newest timeline
TimelinesOf_NewestFirst(rs, b) ==
  Reverse(ForEachRef({r.name : r \in {x \in rs : x.name[1] = b}}))

\* the timelines of the given branch, as for-each-ref prints them
TimelinesOf(rs, b) == ForEachRef({r.name : r \in {x \in rs : x.name[1] = b}})

\* travel(target) up to its call of save(): a timeline number is looked up
\* in the list of timelines, anything else is taken as a reference.  save()
\* ends the process on each of its paths, so nothing of travel runs after
\* the call
travel(i) ==
  /\ pc[i] = "start"
  /\ target[i] # NoTarget
  /\ LET lines == TimelinesOf(refs, curBranch)
         idx == target[i].n - 1
     IN IF target[i].kind = "ordinal"
          THEN IF idx < 0 \/ idx >= Len(lines)
                 THEN /\ pc' = [pc EXCEPT ![i] = TravelExit]
                      /\ exitCode' = [exitCode EXCEPT ![i] = 1]
                      /\ UNCHANGED <<mem, timelineRef>>
                 ELSE /\ timelineRef' = [timelineRef EXCEPT
                                          ![i] = lines[idx + 1]]
                      /\ Goto(i, "gitdir", mem[i])
          ELSE /\ timelineRef' = [timelineRef EXCEPT
                                   ![i] = timelineName(curBranch, target[i].n)]
               /\ Goto(i, "gitdir", mem[i])
  /\ UNCHANGED <<envVars, gitVars, queueVars, saveHist, drainHist, target>>
  /\ UNCHANGED <<cmdVars, projVars, taskVars>>

\* a snapshot taken by an earlier save
OldSnapshot ==
  [name |-> timelineName("main", -1),
   commit |-> CommitTree([p \in Paths |-> IF p = "a" THEN 1 ELSE 0],
                         HeadCommit, -1)]

\* arguments given to travel: the first timeline, a number out of range
\* unless a save has added a timeline, the old snapshot by reference, and a
\* reference that does not exist
TravelTargets == {Ordinal(1), Ordinal(2), DirectRef(-1), DirectRef(-7)}

\* a repository with one snapshot; the first process runs travel, the
\* second a save
TravelInit ==
  /\ now = 0
  /\ isRepo = TRUE
  /\ curBranch = "main"
  /\ head \in HeadTrees
  /\ wt \in Trees
  /\ refs = {OldSnapshot}
  /\ QUEUE_FILE = NoFile
  /\ target \in {t \in [Procs -> TravelTargets \cup {NoTarget}] :
                   t[1] # NoTarget /\ t[2] = NoTarget}
  /\ InitProcs
  /\ InitCmd

TravelNext ==
  \/ Next
  \/ \E i \in Procs : travel(i)

TravelSpec == TravelInit /\ [][TravelNext]_vars

----------------------------------------------------------------------------
(* The interactive commands: list, search, delete and cleanup *)

\* branch names; "old" stands for a branch that was deleted
Branches == {"main", "feature/x", "old"}

\* what the expression ^timelines\/([^\/]+)\/ captures from the name of a
\* timeline of the given branch: the branch name up to its first slash
FirstSegment(b) == IF b = "feature/x" THEN "feature" ELSE b

\* git rev-parse refs/heads/<name> prints a commit and no error
BranchExists(name) == name \in branches

\* names of the timelines found in the repository
StoredNames ==
  {timelineName("main", 1), timelineName("main", 2),
   timelineName("feature/x", 1), timelineName("old", 1)}

\* a timeline whose tree holds the top-level file with the given content
StoredRef(name, c) ==
  [name |-> name,
   commit |-> CommitTree([p \in Paths |-> IF p = "a" THEN c ELSE 0],
                         HeadCommit, name[2])]

\* the sets of timelines a repository can hold: each name is absent (0) or
\* present with some content
StoredRefSets ==
  {{StoredRef(name, f[name]) : name \in {x \in StoredNames : f[x] # 0}} :
     f \in [StoredNames -> 0..MaxContent]}

\* every file of content c holds the line "- c", so the pattern "c" and the
\* pattern "- c" both occur in it; the last plain pattern occurs nowhere
Patterns ==
  {Plain(c) : c \in 1..(MaxContent + 1)} \cup {Dashed(c) : c \in 1..MaxContent}

\* git grep -n <pattern> <timeline> prints matches; a pattern with a
\* leading dash is read as an option, git prints its usage on stderr, git()
\* throws and the catch block of search takes it for no match
GitGrep(pattern, tree) ==
  ~pattern.dash /\ \E p \in Paths : tree[p] = pattern.text

\* the tree of the timeline with the given name
TreeOf(rs, name) == (CHOOSE r \in rs : r.name = name).commit.tree

\* lines typed at the confirmation prompt, after trim()
Inputs == {"yes", "YES", "Yes", "no", "y", ""}

\* String.prototype.toLowerCase on the typed lines
toLowerCase(str) == IF str \in {"YES", "Yes"} THEN "yes" ELSE str

\* a prompt that takes any input for a confirmation
Confirmed_Always(confirmation) == TRUE

\* confirmation.toLowerCase() !== 'yes' is false
Confirmed(confirmation) == toLowerCase(confirmation) = "yes"

\* the parts of the state the interactive commands leave alone
CmdFrame ==
  UNCHANGED <<envVars, indexLock, notes, queueVars, pc, exitCode, mem,
              saveHist, drainHist, travelVars, branches, collected, fed,
              projVars, taskVars>>

\* a listing that prints the newest timeline first
list_NewestFirst ==
  /\ shell.pc = "idle"
  /\ shell' = [IdleShell EXCEPT
                 !.ran = "list",
                 !.out = Reverse(TimelinesOf(refs, curBranch))]
  /\ UNCHANGED refs
  /\ CmdFrame

\* list(): the timelines of the current branch, numbered from 1 in the
\* order for-each-ref prints them
list ==
  /\ shell.pc = "idle"
  /\ shell' = [IdleShell EXCEPT !.ran = "list",
                                !.out = TimelinesOf(refs, curBranch)]
  /\ UNCHANGED refs
  /\ CmdFrame

\* search(pattern): one report for each timeline of the current branch in
\* which git grep finds the pattern
search ==
  /\ shell.pc = "idle"
  /\ \E pattern \in Patterns :
       LET matches(name) == GitGrep(pattern, TreeOf(refs, name))
       IN shell' = [IdleShell EXCEPT
                      !.ran = "search",
                      !.pattern = pattern,
                      !.out = SelectSeq(TimelinesOf(refs, curBranch), matches)]
  /\ UNCHANGED refs
  /\ CmdFrame

\* deleteTimelines() up to the prompt: the timelines of the current branch
deleteTimelines ==
  /\ shell.pc = "idle"
  /\ LET lines == TimelinesOf(refs, curBranch)
     IN shell' = IF lines = <<>>
                   THEN [IdleShell EXCEPT !.ran = "delete"]
                   ELSE [IdleShell EXCEPT
                           !.ran = "delete",
                           !.pc = "delete_confirm",
                           !.victims = {lines[k] : k \in 1..Len(lines)}]
  /\ UNCHANGED refs
  /\ CmdFrame

\* deleteTimelines() from the prompt: git branch -D for each timeline when
\* the answer is yes
deleteTimelines_confirm ==
  /\ shell.pc = "delete_confirm"
  /\ \E confirmation \in Inputs :
       /\ refs' = IF Confirmed(confirmation)
                    THEN {r \in refs : r.name \notin shell.victims}
                    ELSE refs
       /\ shell' = [IdleShell EXCEPT !.ran = "delete",
                                     !.input = confirmation]
  /\ CmdFrame

\* cleanup() up to the prompt: the timelines for whose captured branch name
\* git rev-parse fails
cleanup ==
  /\ shell.pc = "idle"
  /\ LET orphaned == {r.name : r \in {x \in refs :
                         ~BranchExists(FirstSegment(x.name[1]))}}
     IN shell' = IF orphaned = {}
                   THEN [IdleShell EXCEPT !.ran = "cleanup"]
                   ELSE [IdleShell EXCEPT !.ran = "cleanup",
                                          !.pc = "cleanup_confirm",
                                          !.victims = orphaned]
  /\ UNCHANGED refs
  /\ CmdFrame

\* cleanup() from the prompt: git branch -D for each orphaned timeline when
\* the answer is yes
cleanup_confirm ==
  /\ shell.pc = "cleanup_confirm"
  /\ \E confirmation \in Inputs :
       /\ refs' = IF Confirmed(confirmation)
                    THEN {r \in refs : r.name \notin shell.victims}
                    ELSE refs
       /\ shell' = [IdleShell EXCEPT !.ran = "cleanup",
                                     !.input = confirmation]
  /\ CmdFrame

\* a repository with timelines of several branches, some of them of a
\* branch that no longer exists; no save is running
CommandInit ==
  /\ now = 0
  /\ isRepo = TRUE
  /\ curBranch \in {"main", "feature/x"}
  /\ head = [p \in Paths |-> IF p = "a" THEN 1 ELSE 0]
  /\ wt = head
  /\ refs \in StoredRefSets
  /\ QUEUE_FILE = NoFile
  /\ target = [i \in Procs |-> NoTarget]
  /\ InitProcs
  /\ branches \in {b \in SUBSET Branches : curBranch \in b}
  /\ shell = IdleShell
  /\ collected = <<>>
  /\ fed = <<>>

CommandNext ==
  \/ list
  \/ search
  \/ deleteTimelines
  \/ deleteTimelines_confirm
  \/ cleanup
  \/ cleanup_confirm

CommandSpec == CommandInit /\ [][CommandNext]_vars

----------------------------------------------------------------------------
(* The entries save feeds to git mktree *)

\* file modes of regular and executable files
Modes == {100644, 100755}

\* the paths of the workspace in the order of their names
PathOrder == <<"a", "b", "d/f">>

\* position of a path in the order of names
PathRank(p) == CHOOSE k \in 1..Len(PathOrder) : PathOrder[k] = p

\* what a path can be: not there, tracked with a mode, or untracked; the
\* hash stands for the 40 digits hash-object prints
FileKinds ==
  {[kind |-> "absent", mode |-> 0, hash |-> 0]}
  \cup {[kind |-> "tracked", mode |-> m, hash |-> h] :
          m \in Modes, h \in 1..(MaxContent + 1)}
  \cup {[kind |-> "untracked", mode |-> 100644, hash |-> h] :
          h \in 1..(MaxContent + 1)}

\* the line "<mode> blob <hash>\t<path>"
EntryLine(mode, hash, path) == [mode |-> mode, hash |-> hash, path |-> path]

\* the entries of the paths of the given kind, in the order of ls-files
RECURSIVE EntriesOf(_, _, _)
EntriesOf(files, kind, k) ==
  IF k > Len(PathOrder) THEN <<>>
  ELSE LET p == PathOrder[k]
           rest == EntriesOf(files, kind, k + 1)
       IN IF files[p].kind = kind
            THEN <<EntryLine(files[p].mode, files[p].hash, p)>> \o rest
            ELSE rest

\* entries after the two loops: tracked files first, then untracked ones
Collected(files) ==
  EntriesOf(files, "tracked", 1) \o EntriesOf(files, "untracked", 1)

\* order of two entry lines as strings: the mode, the hash and the path are
\* compared in this order, each of them having a fixed width but the path
LineLess(x, y) ==
  \/ x.mode < y.mode
  \/ x.mode = y.mode /\ x.hash < y.hash
  \/ x.mode = y.mode /\ x.hash = y.hash
       /\ PathRank(x.path) < PathRank(y.path)

\* Array.prototype.sort() without a comparator, on a set of lines
RECURSIVE SortLines(_)
SortLines(lines) ==
  IF lines = {} THEN <<>>
  ELSE LET first == CHOOSE x \in lines :
                      \A y \in lines \ {x} : LineLess(x, y)
       IN <<first>> \o SortLines(lines \ {first})

\* entries.sort().join('\n') is written to git mktree
save_mktree ==
  /\ fed = <<>>
  /\ collected # <<>>
  /\ fed' = SortLines({collected[k] : k \in 1..Len(collected)})
  /\ UNCHANGED <<envVars, gitVars, queueVars, pc, exitCode, mem, saveHist,
                 drainHist, travelVars, branches, shell, collected,
                 projVars, taskVars>>

\* a save that has collected the entries of some workspace
EntriesInit ==
  /\ now = 0
  /\ isRepo = TRUE
  /\ curBranch = "main"
  /\ head = [p \in Paths |-> IF p = "a" THEN 1 ELSE 0]
  /\ wt = head
  /\ refs = {}
  /\ QUEUE_FILE = NoFile
  /\ target = [i \in Procs |-> NoTarget]
  /\ InitProcs
  /\ branches = {"main"}
  /\ shell = IdleShell
  /\ collected \in {Collected(files) :
                      files \in [{PathOrder[k] : k \in 1..Len(PathOrder)}
                                   -> FileKinds]}
  /\ fed = <<>>

EntriesNext == save_mktree

EntriesSpec == EntriesInit /\ [][EntriesNext]_vars

----------------------------------------------------------------------------
(* Drains of requests queued for several projects and branches *)

\* a request queued by a save in the given directory, on branch main
QueuedFor(dir, ts) ==
  [timestamp |-> ts, projectPath |-> dir, branch |-> "main", retries |-> 0]

\* logs found at the start: none, a request of the other project, a
\* request of this project, and both
ProjectLogs ==
  {NoFile,
   File(<<QueuedFor(OtherPath, -2)>>),
   File(<<QueuedFor(ProjectPath, -1)>>),
   File(<<QueuedFor(ProjectPath, -1), QueuedFor(OtherPath, -2)>>)}

\* the user switches the workspace to the other branch, which has the same
\* tree; getCurrentBranch() prints the new name from then on
Checkout ==
  /\ indexLock = NoLock
  /\ curBranch' = IF curBranch = "main" THEN "feature/x" ELSE "main"
  /\ UNCHANGED <<now, isRepo, head, wt>>
  /\ UNCHANGED <<gitVars, queueVars, histVars, pc, exitCode, mem>>

\* a repository with two branches whose committed file was deleted in the
\* workspace, and a queue log with requests made on branch main
ProjectsInit ==
  /\ now = 0
  /\ isRepo = TRUE
  /\ curBranch = "main"
  /\ head = [p \in Paths |-> IF p = "a" THEN 1 ELSE 0]
  /\ wt = EmptyTree
  /\ refs = {}
  /\ QUEUE_FILE \in ProjectLogs
  /\ target = [i \in Procs |-> NoTarget]
  /\ InitProcs
  /\ branches = {"main", "feature/x"}
  /\ shell = IdleShell
  /\ collected = <<>>
  /\ fed = <<>>

ProjectsNext ==
  \/ Next
  \/ Checkout

ProjectsSpec == ProjectsInit /\ [][ProjectsNext]_vars

----------------------------------------------------------------------------
(* TimelineQueue of timeline-core-v2.ts: tasks run one after the other on *)
(* the event loop of one process                                           *)

\* an add that starts the task at once, whatever is running
add_Unguarded ==
  /\ Len(taskLog.added) < MaxTasks
  /\ \E throws \in BOOLEAN :
       LET task == [id |-> Len(taskLog.added) + 1, throws |-> throws]
       IN /\ TimelineQueue' = [TimelineQueue EXCEPT !.processing = TRUE,
                                                    !.pc = "task",
                                                    !.task = task]
          /\ taskLog' = [taskLog EXCEPT !.added = Append(@, task.id),
                                        !.started = Append(@, task.id)]
  /\ UNCHANGED <<envVars, gitVars, queueVars, pc, exitCode, mem, saveHist,
                 drainHist, travelVars, cmdVars, projVars>>

\* TimelineQueue.add(task): push, and when nothing is processing the call
\* of process() up to its first await: processing = true, shift, task()
add ==
  /\ Len(taskLog.added) < MaxTasks
  /\ \E throws \in BOOLEAN :
       LET task == [id |-> Len(taskLog.added) + 1, throws |-> throws]
           pushed == Append(TimelineQueue.queue, task)
       IN IF ~TimelineQueue.processing
            THEN /\ TimelineQueue' = [queue |-> Tail(pushed),
                                      processing |-> TRUE,
                                      pc |-> "task",
                                      task |-> Head(pushed)]
                 /\ taskLog' = [taskLog EXCEPT
                                  !.added = Append(@, task.id),
                                  !.started = Append(@, Head(pushed).id)]
            ELSE /\ TimelineQueue' = [TimelineQueue EXCEPT !.queue = pushed]
                 /\ taskLog' = [taskLog EXCEPT !.added = Append(@, task.id)]
  /\ UNCHANGED <<envVars, gitVars, queueVars, pc, exitCode, mem, saveHist,
                 drainHist, travelVars, cmdVars, projVars>>

\* process(): the awaited task resolves, or it throws and the catch block
\* logs the error; then the delay of 100 ms starts
process_settle ==
  /\ TimelineQueue.pc = "task"
  /\ TimelineQueue' = [TimelineQueue EXCEPT !.pc = "delay", !.task = NoTask]
  /\ taskLog' = [taskLog EXCEPT
                   !.settled = @ \cup {TimelineQueue.task.id},
                   !.thrown = IF TimelineQueue.task.throws
                                THEN @ \cup {TimelineQueue.task.id}
                                ELSE @]
  /\ UNCHANGED <<envVars, gitVars, queueVars, pc, exitCode, mem, saveHist,
                 drainHist, travelVars, cmdVars, projVars>>

\* process(): the delay ends and the loop tests the queue: shift and call
\* the next task, or processing = false
process_delay ==
  /\ TimelineQueue.pc = "delay"
  /\ IF TimelineQueue.queue # <<>>
       THEN /\ TimelineQueue' = [TimelineQueue EXCEPT
                                   !.queue = Tail(@),
                                   !.pc = "task",
                                   !.task = Head(TimelineQueue.queue)]
            /\ taskLog' = [taskLog EXCEPT
                             !.started = Append(@, Head(TimelineQueue.queue).id)]
       ELSE /\ TimelineQueue' = [TimelineQueue EXCEPT !.processing = FALSE,
                                                      !.pc = "idle"]
            /\ UNCHANGED taskLog
  /\ UNCHANGED <<envVars, gitVars, queueVars, pc, exitCode, mem, saveHist,
                 drainHist, travelVars, cmdVars, projVars>>

\* a process in which no save runs and nothing was added to TimelineQueue
TaskInit ==
  /\ now = 0
  /\ isRepo = TRUE
  /\ curBranch = "main"
  /\ head = [p \in Paths |-> IF p = "a" THEN 1 ELSE 0]
  /\ wt = head
  /\ refs = {}
  /\ QUEUE_FILE = NoFile
  /\ target = [i \in Procs |-> NoTarget]
  /\ InitProcs
  /\ InitCmd

TaskNext ==
  \/ add
  \/ process_settle
  \/ process_delay

\* the event loop runs every continuation that is ready: a task that was
\* called settles, and the timer of the delay fires
TaskFairSpec ==
  /\ TaskInit
  /\ [][TaskNext]_vars
  /\ WF_vars(process_settle)
  /\ WF_vars(process_delay)

\* every save process takes its steps: the runtime keeps executing a process
\* until it calls process.exit
FairSpec == Spec /\ \A i \in Procs : WF_vars(SaveStep(i))

----------------------------------------------------------------------------
(* Properties *)

\* reference names only the given process wrote
NewRefs(i) == made[i] \ UNION {made[j] : j \in Procs \ {i}}

\* every save process has exited
AllExited == \A i \in Procs : pc[i] \in ExitSites

\* paths whose content differs between two trees
ChangedPaths(t, u) == {p \in Paths : t[p] # u[p]}

\* the request of a save is in the deferred queue log
Deferred(i) ==
  /\ pc[i] = "exit115"
  /\ QUEUE_FILE.exists
  /\ \E k \in 1..Len(QUEUE_FILE.lines) :
       QUEUE_FILE.lines[k].projectPath = ProjectPath

\* the references a process wrote, as they are now
RefsOf(i) == {r \in refs : r.name \in made[i]}

\* C1: a save that runs to success on a workspace with a changed path has
\* created exactly one reference under timelines/<branch>/, whose commit has
\* the head as parent and whose tree differs from the head's tree in
\* precisely the changed paths
C1_CaptureSnapshotsChangedPaths ==
  \A i \in Procs :
    pc[i] = "exit274" =>
      /\ Cardinality(made[i]) = 1
      /\ \A r \in RefsOf(i) :
           /\ r.name[1] = curBranch
           /\ r.commit.parent = HeadCommit
           /\ ChangedPaths(r.commit.tree, head) = ChangedPaths(wt, head)

\* C2: a snapshot exists iff the workspace differs from the head: no
\* reference on an identical workspace, and no reference whose tree is the
\* head's tree
C2_SnapshotIffWorkspaceDiffers ==
  /\ wt = head => refs = {}
  /\ \A r \in refs : r.commit.tree # head

\* C3 as claimed: a save started after a successful save, with no edit and
\* no change of head in between, creates no new reference
C3_SecondCaptureIsNoOp ==
  \A j \in Procs : priorSuccess[j] => NewRefs(j) = {}

\* C3 amended: capture is a no-op exactly on a workspace identical to the
\* head; a save started after a successful save finds the workspace still
\* different from the head, and when it runs to success it has written a
\* reference again
C3_NoOpOnlyWhenIdenticalToHead ==
  \A j \in Procs :
    /\ wt = head => made[j] = {}
    /\ pc[j] = "exit132" => wt = head
    /\ priorSuccess[j] => wt # head
    /\ priorSuccess[j] /\ pc[j] = "exit274" => made[j] # {}

\* C3 witness: a save started after a successful save has created a
\* reference of its own
C3_Witness ==
  \E j \in Procs :
    priorSuccess[j] /\ pc[j] = "exit274" /\ NewRefs(j) # {}

\* C4: a save that found index.lock at every poll of the whole wait budget
\* has exited with 0, created no reference, and its request is in the queue
C4_BudgetExhaustedIsDeferred ==
  \A i \in Procs :
    pc[i] = "exit98" =>
      /\ exitCode[i] = 0
      /\ made[i] = {}
      /\ QUEUE_FILE.exists
      /\ \E k \in 1..Len(QUEUE_FILE.lines) :
           QUEUE_FILE.lines[k].projectPath = ProjectPath

\* C5: a save in a repository whose workspace differs from the head ends
\* with exactly one of: a new reference, a queue entry, a logged failure
C5_NoSnapshotLost ==
  \A i \in Procs :
    pc[i] \in ExitSites /\ isRepo /\ wt # head =>
      Cardinality({o \in {"reference", "deferred", "logged"} :
                     \/ o = "reference" /\ made[i] # {}
                     \/ o = "deferred" /\ Deferred(i)
                     \/ o = "logged" /\ warned > 0}) = 1

\* C6: two saves that both succeed leave two distinct references, also when
\* they run in the same millisecond
C6_ConcurrentSavesDistinctRefs ==
  \A i, j \in Procs :
    i # j /\ pc[i] = "exit274" /\ pc[j] = "exit274" =>
      /\ made[i] \cap made[j] = {}
      /\ Cardinality(RefsOf(i) \cup RefsOf(j)) = 2

\* C7: save never runs a git command that takes the index: index.lock is
\* never held by a save
C7_SaveNeverTakesIndexLock ==
  \A i \in Procs : indexLock # i

\* C8: concurrent saves do not wait on each other and leave no index.lock:
\* a lock-guard wait never happens on a lock held by a save, and no save
\* holds index.lock when all have exited
C8_SavesDoNotInterfere ==
  /\ [][\A i \in Procs :
          pc[i] = "poll" /\ mem'[i].attempt = mem[i].attempt + 1
            => indexLock \notin Procs]_vars
  /\ [](AllExited => indexLock \notin Procs)

\* C10: the cumulative wait of the lock guard never exceeds maxWaitTime
C10_WaitWithinBudget ==
  \A i \in Procs : mem[i].totalWaitTime <= maxWaitTime

\* C9: save always terminates with exit code 0, on every path: every save
\* process eventually reaches a process.exit, and the code it exits with is 0
C9_TerminatesWithExitZero ==
  <>(\A i \in Procs : pc[i] \in ExitSites /\ exitCode[i] = 0)

\* C9 witness: the processes have exited on different paths, one of them
\* the catch-all for internal errors
C9_Witness ==
  /\ AllExited
  /\ \E i \in Procs : pc[i] = "exit279"
  /\ \E i \in Procs : pc[i] # "exit279"

----------------------------------------------------------------------------
(* Properties of the deferred queue *)

\* the entry with the given timestamp is in the queue log
InLog(e) == QUEUE_FILE.exists /\ e \in Ids(QUEUE_FILE.lines)

\* entries captured by some drain
AllCaptured == UNION {captured[i] : i \in Procs}

\* the process is running
Running(i) == pc[i] \notin {"start", "crashed", TravelExit} \cup ExitSites

\* the process takes a step of its own
Steps(i) == <<pc[i], mem[i]>>' # <<pc[i], mem[i]>> /\ pc'[i] # "crashed"

\* C11: once a drain has captured a queue entry the entry is gone from the
\* log when the drain ends, and no drain that reads the log afterwards gets
\* the entry to process
C11_CapturedEntryLeavesLog ==
  /\ [](\A i \in Procs :
          pc[i] \in ExitSites => \A e \in captured[i] : ~InLog(e))
  /\ [][\A j \in Procs :
          pc[j] = "pq_read" /\ pc'[j] = "pq_line"
            => Ids(mem'[j].content) \cap AllCaptured = {}]_vars

\* C12: two drains running at the same time never both capture the same
\* entry: no drain captures an entry that a drain still running has captured
C12_EntryCapturedAtMostOnce ==
  [][\A i, j \in Procs :
       i # j /\ Running(j) /\ captured'[i] # captured[i]
         => captured'[i] \cap captured[j] = {}]_vars

C14_LockReleasedOnEveryExit ==
  \A i \in Procs :
    pc[i] \in ExitSites => ~(acquired[i] /\ LOCK_FILE # NoLockFile)

\* C15: at most one running drain is between writing processor.lock and
\* removing it
C15_OneDrainAtATime ==
  Cardinality({i \in Procs : Running(i) /\ acquired[i]}) <= 1

\* C16: a drain that finds processor.lock older than the staleness threshold
\* when it reads it takes the lock over, stamps it with the current time and
\* goes on to read the queue; a drain that finds a younger lock returns
\* without touching the lock, the log or the references
C16_StaleLockReclaimed ==
  [][\A i \in Procs :
       /\ pc[i] = "pq_lockread" /\ Steps(i) /\ LOCK_FILE # NoLockFile
            => IF now - LOCK_FILE > StaleLockMs
                 THEN pc'[i] = "pq_lockwrite"
                 ELSE /\ pc'[i] = "branch"
                      /\ UNCHANGED <<LOCK_FILE, QUEUE_FILE, refs>>
       /\ pc[i] = "pq_lockwrite" /\ Steps(i)
            => LOCK_FILE' = now /\ pc'[i] = "pq_read"]_vars

\* C16 witness: a drain died holding the lock, and a later drain has taken
\* the lock over and is processing the queue
C16_Witness ==
  \E i, j \in Procs :
    /\ pc[j] = "crashed" /\ acquired[j]
    /\ pc[i] = "pq_line" /\ acquired[i]
    /\ LOCK_FILE > StaleLockMs

\* C17: an enqueue leaves the log as it was with the new record added at
\* the end, whatever other processes wrote since it started
C17_EnqueueAppendOnly ==
  [][\A i \in Procs :
       pc[i] # "exit115" /\ pc'[i] = "exit115"
         => QUEUE_FILE'.lines = Append(QUEUE_FILE.lines, NewEntry(mem[i]))]_vars

\* C18: a rewrite of the log leaves out only entries of its failed list,
\* the failed list holds only entries whose retry count reached the ceiling,
\* and the failed list is reported when the drain ends
C18_NoSilentDrop ==
  [][\A i \in Procs :
       /\ pc[i] = "pq_rewrite" /\ Steps(i)
            => /\ \A e \in Ids(QUEUE_FILE.lines) :
                    e \in Ids(QUEUE_FILE'.lines) \/ e \in Ids(mem[i].failed)
               /\ \A k \in 1..Len(mem[i].failed) :
                    mem[i].failed[k].retries >= MaxQueueRetries
       /\ pc[i] = "pq_finally" /\ Steps(i)
            => Ids(mem[i].failed) \subseteq dead']_vars

\* C19: a drain that meets a line that is not JSON goes on with the next
\* line of the log
C19_MalformedRecordSkipped ==
  [][\A i \in Procs :
       (/\ pc[i] = "pq_line" /\ Steps(i)
        /\ mem[i].lineIdx <= Len(mem[i].content)
        /\ ~JsonParses(mem[i].content[mem[i].lineIdx]))
         => pc'[i] = "pq_line" /\ mem'[i].lineIdx = mem[i].lineIdx + 1]_vars

\* C20: when a travel process has ended and its target resolves to a
\* snapshot, every file of the snapshot has the snapshot's content in the
\* working tree
C20_TravelRestoresTarget ==
  \A i \in Procs :
    target[i] # NoTarget /\ pc[i] \in ExitSites =>
      \A r \in refs :
        r.name = timelineRef[i] =>
          \A p \in Paths :
            r.commit.tree[p] # 0 => wt[p] = r.commit.tree[p]

----------------------------------------------------------------------------
(* Properties of travel, metadata and the lock guard *)

\* the timelines of the current branch
CurrentTimelines == {r \in refs : r.name[1] = curBranch}

\* C21: a travel whose safety save ran to success on a workspace that
\* differs from the head has created a reference whose tree is the
\* workspace as it was before the travel
C21_TravelTakesSafetySnapshot ==
  \A i \in Procs :
    target[i] # NoTarget /\ pc[i] = "exit274" /\ wt # head =>
      \E r \in RefsOf(i) : r.commit.tree = wt

C24_InvalidTargetFails ==
  /\ [](\A i \in Procs :
          (/\ target[i] # NoTarget
           /\ pc[i] \in ExitSites \cup {TravelExit}
           /\ \A r \in refs : r.name # timelineRef[i])
            => exitCode[i] # 0)
  /\ [][wt' = wt]_vars

\* C28: when a save has ended, normally or by a failure, every reference it
\* created points to a commit that carries a metadata note
C28_EveryReferenceHasMetadata ==
  \A i \in Procs :
    pc[i] \in ExitSites => \A r \in RefsOf(i) : r.commit \in notes

\* C29: while index.lock is present the k-th wait of the lock guard is 50,
\* 100, 200, 400, 800 and then 1000 ms; the guard polls with attempt below
\* 10 only, and a poll that finds no index.lock leaves the loop at once
\* without adding to the wait
C29_BackoffSchedule ==
  [][\A i \in Procs :
       pc[i] = "poll" /\ Steps(i) =>
         /\ mem[i].attempt < maxRetries
         /\ indexLock = NoLock =>
              pc'[i] = "final" /\ mem'[i].totalWaitTime = 0
         /\ pc'[i] = "poll" =>
              /\ mem'[i].attempt = mem[i].attempt + 1
              /\ mem'[i].totalWaitTime - mem[i].totalWaitTime
                   = CASE mem[i].attempt = 0 -> 50
                       [] mem[i].attempt = 1 -> 100
                       [] mem[i].attempt = 2 -> 200
                       [] mem[i].attempt = 3 -> 400
                       [] mem[i].attempt = 4 -> 800
                       [] OTHER -> 1000]_vars

\* C29 witness: a save has waited six times on index.lock, 2550 ms in all
C29_Witness ==
  \E i \in Procs :
    pc[i] = "poll" /\ mem[i].attempt = 6 /\ mem[i].totalWaitTime = 2550

----------------------------------------------------------------------------
(* Properties of the interactive commands and of the tree entries *)

\* the names in a sequence
Range(q) == {q[k] : k \in 1..Len(q)}

C25_CleanupDeletesOrphansOnly ==
  [][shell.pc = "cleanup_confirm" =>
       /\ \A r \in refs \ refs' : r.name[1] \notin branches
       /\ shell'.input \in {"yes", "YES", "Yes"}
            => refs \ refs' = {r \in refs : r.name[1] \notin branches}]_vars

\* C26: a step of cleanup or delete changes the set of references only when
\* the typed confirmation is yes in some mix of upper and lower case
C26_NoDeletionWithoutYes ==
  [][refs' # refs =>
       /\ shell.pc \in {"delete_confirm", "cleanup_confirm"}
       /\ shell'.input \in {"yes", "YES", "Yes"}]_vars

\* C26 witness: delete has removed the timelines of the current branch on
\* the answer YES
C26_Witness ==
  shell.ran = "delete" /\ shell.input = "YES" /\ CurrentTimelines = {}

\* C27: search reports exactly the timelines of the current branch whose
\* tree holds a file in which the pattern occurs, each of them once
C27_SearchReportsMatches ==
  shell.ran = "search" =>
    /\ Range(shell.out) =
         {r.name : r \in {x \in CurrentTimelines :
            \E p \in Paths : x.commit.tree[p] = shell.pattern.text}}
    /\ Len(shell.out) = Cardinality(Range(shell.out))

\* C30: the entries written to git mktree are in the order of their paths
C30_EntriesSortedByPath ==
  \A k, l \in 1..Len(fed) :
    k < l => PathRank(fed[k].path) < PathRank(fed[l].path)

----------------------------------------------------------------------------
(* Properties of failures, of the drain inside save and of TimelineQueue *)

\* C31: a step of the capture in which hashing or tree building fails (the
\* tree it ends with is not the tree of the existing files) ends the save
\* with a non-zero exit code, and so does a failing commit-tree or
\* update-ref, with no reference written by the save
C31_BackendFailureReported ==
  [][\A i \in Procs :
       /\ (pc[i] = "tree" /\ Steps(i) /\ wt # EmptyTree /\ mem'[i].tree # wt)
            => pc'[i] \in ExitSites /\ exitCode'[i] # 0
       /\ (pc[i] \in {"commit", "updateref"} /\ pc'[i] = "exit279")
            => exitCode'[i] # 0 /\ made'[i] = {}]_vars

\* the lock guard of the save the process was invoked for has passed
PassedGuard(i) ==
  \/ mem[i].nested
  \/ pc[i] \in {"pq_start", "pq_lockcheck", "pq_lockread", "pq_lockwrite",
                 "pq_read", "pq_line", "pq_rewrite", "pq_finally", "branch",
                 "status", "status_end", "tree", "commit", "updateref",
                 "notes"}

\* C32: a save whose lock guard has passed on a workspace that differs from
\* the head does not end without a reference of its own, whatever the drain
\* finds, unless a git command of the capture itself fails
C32_DrainNeverPreventsCapture ==
  [][\A i \in Procs :
       (PassedGuard(i) /\ wt # head /\ pc'[i] \in ExitSites)
         => \/ made'[i] # {}
            \/ pc[i] \in {"commit", "updateref", "notes"}]_vars

\* C33: after processQueue has returned inside save, the process works in
\* the directory save was invoked in: the branch, the status and the files
\* it reads are those of that directory
C33_DrainKeepsWorkingDirectory ==
  \A i \in Procs :
    pc[i] \in {"branch", "status", "status_end", "tree", "commit",
               "updateref", "notes"}
      => cwd[i] = ProjectPath

\* C38: a reference written for a queue entry is in the workspace of the
\* entry and under the branch recorded in the entry
C38_DeferredCaptureUsesEntry ==
  [][\A i \in Procs :
       (mem[i].nested /\ pc[i] = "updateref" /\ pc'[i] = "notes")
         => LET entry == mem[i].content[mem[i].lineIdx]
            IN /\ cwd[i] = entry.projectPath
               /\ \A r \in refs' \ refs : r.name[1] = entry.branch]_vars

\* C34: a failed attempt of a drain raises the retry count of the entry by
\* exactly one, a rewrite keeps only entries below five failed attempts, and
\* an entry a drain has captured is out of the log when that drain ends
C34_RetriesCountedAndEntriesLeave ==
  [][\A i \in Procs :
       /\ (/\ pc[i] = "pq_line" /\ pc'[i] = "pq_line" /\ Steps(i)
           /\ JsonParses(mem[i].content[mem[i].lineIdx]))
            => LET entry == mem[i].content[mem[i].lineIdx]
                   kept == mem'[i].pending \o mem'[i].failed
               IN /\ Len(kept) = Len(mem[i].pending \o mem[i].failed) + 1
                  /\ \E k \in 1..Len(kept) :
                       /\ kept[k].timestamp = entry.timestamp
                       /\ kept[k].retries = entry.retries + 1
       /\ (pc[i] = "pq_rewrite" /\ Steps(i))
            => \A k \in 1..Len(QUEUE_FILE'.lines) :
                 QUEUE_FILE'.lines[k].retries < MaxQueueRetries
       /\ (pc[i] \notin ExitSites /\ pc'[i] \in ExitSites)
            => captured'[i] \cap Ids(QUEUE_FILE'.lines) = {}]_vars

\* C35: every record of the queue log has a retry count of 0 to 4
C35_RetryCountInRange ==
  \A k \in 1..Len(QUEUE_FILE.lines) :
    JsonParses(QUEUE_FILE.lines[k])
      => QUEUE_FILE.lines[k].retries \in 0..(MaxQueueRetries - 1)

\* C35 witness: the log holds an entry that two drains have failed on
C35_Witness ==
  /\ QUEUE_FILE.exists
  /\ \E k \in 1..Len(QUEUE_FILE.lines) :
       JsonParses(QUEUE_FILE.lines[k]) /\ QUEUE_FILE.lines[k].retries = 2

\* processor.lock exists and is not older than the staleness threshold
FreshLock == LOCK_FILE # NoLockFile /\ now - LOCK_FILE <= StaleLockMs

\* C36: a drain that finds no log file returns at once, a drain that finds
\* a fresh processor.lock goes no further than reading it, and neither step
\* changes the log, the lock file or the references
C36_RedundantDrainChangesNothing ==
  [][\A i \in Procs :
       /\ (pc[i] = "pq_start" /\ Steps(i) /\ ~QUEUE_FILE.exists)
            => /\ pc'[i] = "branch"
               /\ UNCHANGED <<QUEUE_FILE, LOCK_FILE, refs>>
       /\ (pc[i] \in {"pq_lockcheck", "pq_lockread"} /\ Steps(i) /\ FreshLock)
            => /\ pc'[i] \in {"pq_lockread", "branch"}
               /\ UNCHANGED <<QUEUE_FILE, LOCK_FILE, refs>>]_vars

\* C36 witness: a drain has returned without reading the log while another
\* drain holds the fresh lock and processes the log
C36_Witness ==
  \E i, j \in Procs :
    /\ i # j
    /\ pc[i] = "branch" /\ ~mem[i].nested /\ readIds[i] = {}
    /\ pc[j] = "pq_line" /\ acquired[j]
    /\ FreshLock /\ QUEUE_FILE.exists

\* C37: an entry another process added to the log after a drain read it is
\* in the log after the drain has rewritten or removed the log
C37_RewriteKeepsNewEntries ==
  [][\A i \in Procs :
       (pc[i] = "pq_rewrite" /\ Steps(i))
         => \A e \in Ids(QUEUE_FILE.lines) \ Ids(mem[i].content) :
              e \in Ids(QUEUE_FILE'.lines)]_vars

\* tasks that were called and have not settled
RunningTasks == {id \in Range(taskLog.started) : id \notin taskLog.settled}

====
